---- MODULE Spec2Model ----
(***************************************************************************)
(* Model of django_elasticsearch/models.py: the EsIndexable mixin and the  *)
(* post_save / post_delete / post_migrate callbacks that mirror database   *)
(* rows into the search index.                                             *)
(*                                                                         *)
(* One action per lifecycle operation (save, delete, migrate).  Each       *)
(* action runs the whole operation: the guard of the mixin, the database   *)
(* write, the signal dispatch and the connected callback with every call   *)
(* it makes on the backend.  The environment supplies, per operation, the  *)
(* outcome of each external call (a "plan").                               *)
(***************************************************************************)
EXTENDS Integers, Sequences, FiniteSets, TLC

(* ------------------------------ bounds -------------------------------- *)

\* Length of the recorded history of events (only when recording is on).
MaxEvents == 2

(* --------------------------- input domains ---------------------------- *)

\* Concrete model classes of the project; Article and Comment derive from
\* EsIndexable, Plain derives from Model only.
Models == {"Article", "Comment", "Plain"}
EsIndexableSubclasses == {"Article", "Comment"}

\* Database rows (the Comment table stays empty) and the field contents a save
\* writes; Absent stands for "no such row / no such document".
Rows == {[model |-> "Article", pk |-> 1], [model |-> "Plain", pk |-> 1]}
Values == {"v1", "v2"}
Absent == "none"

\* Model lists of the migrated application, in iteration order.
AppModelLists == {<<"Article", "Plain", "Comment">>, <<"Comment">>, <<"Plain">>}

\* Values of settings.ELASTICSEARCH_AUTO_INDEX and of instance._is_es_deserialized.
Flags == {"absent", "False", "True"}

\* Framework versions: the text returned by get_version() and its meaning.
Versions ==
    { [text |-> <<"1", ".", "6">>,      major |-> 1, minor |-> 6],
      [text |-> <<"1", ".", "7">>,      major |-> 1, minor |-> 7],
      [text |-> <<"1", ".", "1", "0">>, major |-> 1, minor |-> 10],
      [text |-> <<"2", ".", "0">>,      major |-> 2, minor |-> 0],
      [text |-> <<"3", ".", "2">>,      major |-> 3, minor |-> 2] }

\* Exceptions an external call can raise.
ConnectivityErrors ==
    {"requests.ConnectionError", "requests.Timeout", "ElasticConnectionError"}
OtherErrors == {"TransportError"}
Exceptions == ConnectivityErrors \cup OtherErrors
Outcomes == {"ok"} \cup Exceptions

\* A plan is the outcome of each external call of one try block, in call
\* order; every call before the last one returned normally.
Plans2 == {<<e>> : e \in Exceptions} \cup {<<"ok", o>> : o \in Outcomes}
Plans3 == {<<e>> : e \in Exceptions} \cup {<<"ok", e>> : e \in Exceptions}
              \cup {<<"ok", "ok", o>> : o \in Outcomes}

VARIABLES
    settings,   \* value of settings.ELASTICSEARCH_AUTO_INDEX
    version,    \* installed framework version
    receivers,  \* signal name -> set of connected callbacks
    db,         \* database: row -> value, Absent when the row does not exist
    index,      \* search index: row -> indexed value, Absent when not indexed
    last,       \* what the most recent operation did
    reachable,  \* no external call has raised so far
    trace       \* recorded history: events and manager calls

vars == <<settings, version, receivers, db, index, last, reachable, trace>>

(* ------------------------------ helpers ------------------------------- *)

Call(op, on, out) == [op |-> op, on |-> on, out |-> out]
ClassRow(m) == [model |-> m, pk |-> 0]
RowOf(instance) == [model |-> instance.model, pk |-> instance.pk]

\* getattr(obj, name, False) followed by a truth test.
getattr_False(value) == IF value = "absent" THEN FALSE ELSE value = "True"

\* int(c) for one character of a version text.
int ==
    [c \in {"0", "1", "2", "3", "4", "5", "6", "7", "8", "9"} |->
        CASE c = "0" -> 0 [] c = "1" -> 1 [] c = "2" -> 2 [] c = "3" -> 3
          [] c = "4" -> 4 [] c = "5" -> 5 [] c = "6" -> 6 [] c = "7" -> 7
          [] c = "8" -> 8 [] c = "9" -> 9]

\* s[i] with Python's 0-based indexing.
PyIndex(s, i) == s[i + 1]

issubclass_Model(cls) == cls \in Models

issubclass_EsIndexable(cls) == cls \in EsIndexableSubclasses

(* ------------------- the manager (ElasticsearchManager) ---------------- *)

\* Effect of a manager call that returns; a call that raises has no effect
\* on the index.

do_index(instance, idx) == [idx EXCEPT ![RowOf(instance)] = instance.value]
es_delete(instance, idx) == [idx EXCEPT ![RowOf(instance)] = Absent]
create_index(model, idx) == idx
reindex_all(model, idx, d) ==
    [r \in DOMAIN idx |-> IF r.model = model /\ d[r] # Absent THEN d[r] ELSE idx[r]]

(* ----------------------------- callbacks ------------------------------ *)

\* The result of running a callback.
Result(idx, calls, logged, raised) ==
    [index |-> idx, calls |-> calls, logged |-> logged, raised |-> raised]

Caught_NoTimeout(e) ==
    e \in {"requests.ConnectionError", "ElasticConnectionError"}

Caught_All(e) == e \in Exceptions

\* except (requests ConnectionError, requests Timeout, ElasticConnectionError)
Caught(e) ==
    e \in {"requests.ConnectionError", "requests.Timeout", "ElasticConnectionError"}

\* The except clause: a caught exception is logged once, any other propagates.
Except(idx, calls, e, logged) ==
    IF Caught(e) THEN Result(idx, calls, logged + 1, "none")
                 ELSE Result(idx, calls, logged, e)

\* do_index issued before the probe.
es_save_callback_IndexFirst(sender, instance, idx, plan) ==
    IF ~issubclass_EsIndexable(sender) THEN Result(idx, <<>>, 0, "none")
    ELSE LET call == Call("do_index", RowOf(instance), plan[1]) IN
         IF plan[1] # "ok" THEN Except(idx, <<call>>, plan[1], 0)
         ELSE LET probe == Call("probe", RowOf(instance), plan[2]) IN
              IF plan[2] # "ok" THEN Except(do_index(instance, idx), <<call, probe>>, plan[2], 0)
              ELSE Result(do_index(instance, idx), <<call, probe>>, 0, "none")

\* the body of es_delete_callback pasted into es_save_callback.
es_save_callback_WrongOp(sender, instance, idx, plan) ==
    IF ~issubclass_EsIndexable(sender) THEN Result(idx, <<>>, 0, "none")
    ELSE LET probe == Call("probe", RowOf(instance), plan[1]) IN
         IF plan[1] # "ok" THEN Except(idx, <<probe>>, plan[1], 0)
         ELSE LET call == Call("delete", RowOf(instance), plan[2]) IN
              IF plan[2] # "ok" THEN Except(idx, <<probe, call>>, plan[2], 0)
              ELSE Result(es_delete(instance, idx), <<probe, call>>, 0, "none")

es_save_callback(sender, instance, idx, plan) ==
    IF ~issubclass_EsIndexable(sender) THEN Result(idx, <<>>, 0, "none")
    ELSE LET probe == Call("probe", RowOf(instance), plan[1]) IN
         IF plan[1] # "ok" THEN Except(idx, <<probe>>, plan[1], 0)
         ELSE LET call == Call("do_index", RowOf(instance), plan[2]) IN
              IF plan[2] # "ok" THEN Except(idx, <<probe, call>>, plan[2], 0)
              ELSE Result(do_index(instance, idx), <<probe, call>>, 0, "none")

\* the probe alone, instance.es.delete() forgotten.
es_delete_callback_SkipCall(sender, instance, idx, plan) ==
    IF ~issubclass_EsIndexable(sender) THEN Result(idx, <<>>, 0, "none")
    ELSE LET probe == Call("probe", RowOf(instance), plan[1]) IN
         IF plan[1] # "ok" THEN Except(idx, <<probe>>, plan[1], 0)
         ELSE Result(idx, <<probe>>, 0, "none")

es_delete_callback(sender, instance, idx, plan) ==
    IF ~issubclass_EsIndexable(sender) THEN Result(idx, <<>>, 0, "none")
    ELSE LET probe == Call("probe", RowOf(instance), plan[1]) IN
         IF plan[1] # "ok" THEN Except(idx, <<probe>>, plan[1], 0)
         ELSE LET call == Call("delete", RowOf(instance), plan[2]) IN
              IF plan[2] # "ok" THEN Except(idx, <<probe, call>>, plan[2], 0)
              ELSE Result(es_delete(instance, idx), <<probe, call>>, 0, "none")

\* The try block of the migration loop for one EsIndexable model.
SyncModel(model, acc, d, plan) ==
    LET probe  == Call("probe", ClassRow(model), plan[1])
        c1     == acc.calls \o <<probe>>
    IN
    IF plan[1] # "ok" THEN Except(acc.index, c1, plan[1], acc.logged)
    ELSE LET create == Call("create_index", ClassRow(model), plan[2])
             c2     == c1 \o <<create>>
             idx2   == create_index(model, acc.index)
         IN
         IF plan[2] # "ok" THEN Except(acc.index, c2, plan[2], acc.logged)
         ELSE LET reindex == Call("reindex_all", ClassRow(model), plan[3])
                  c3      == c2 \o <<reindex>>
              IN
              IF plan[3] # "ok" THEN Except(idx2, c3, plan[3], acc.logged)
              ELSE Result(reindex_all(model, idx2, d), c3, acc.logged, "none")

\* a logged error ends the loop (break in the except clause).
RECURSIVE SyncLoop_Break(_, _, _, _, _)
SyncLoop_Break(models, i, acc, d, plans) ==
    IF i > Len(models) THEN acc
    ELSE IF ~issubclass_EsIndexable(models[i]) THEN SyncLoop_Break(models, i + 1, acc, d, plans)
    ELSE LET r == SyncModel(models[i], acc, d, plans[models[i]]) IN
         IF r.raised # "none" \/ r.logged > acc.logged THEN r
         ELSE SyncLoop_Break(models, i + 1, r, d, plans)

\* for model in models: ...
RECURSIVE SyncLoop(_, _, _, _, _)
SyncLoop(models, i, acc, d, plans) ==
    IF i > Len(models) THEN acc
    ELSE IF ~issubclass_EsIndexable(models[i]) THEN SyncLoop(models, i + 1, acc, d, plans)
    ELSE LET r == SyncModel(models[i], acc, d, plans[models[i]]) IN
         IF r.raised # "none" THEN r ELSE SyncLoop(models, i + 1, r, d, plans)

\* if int(get_version()[2]) > 6
UsesGetModels(v) == int[PyIndex(v.text, 2)] > 6

\* models = sender.get_models() or created_models
SyncdbModels(sender, created_models, v) ==
    IF UsesGetModels(v) THEN sender.get_models ELSE created_models

es_syncdb_callback(sender, created_models, v, idx, d, plans) ==
    SyncLoop(SyncdbModels(sender, created_models, v), 1,
             Result(idx, <<>>, 0, "none"), d, plans)

(* ------------------------- signal registration ------------------------ *)

NoReceivers ==
    [post_save |-> {}, post_delete |-> {}, post_migrate |-> {}]

Connect_Always(setting) ==
    [post_save    |-> {"es_save_callback"},
     post_delete  |-> {"es_delete_callback"},
     post_migrate |-> {"es_syncdb_callback"}]

\* The module-level "if getattr(settings, 'ELASTICSEARCH_AUTO_INDEX', False)".
Connect(setting) ==
    IF getattr_False(setting)
    THEN [post_save    |-> {"es_save_callback"},
          post_delete  |-> {"es_delete_callback"},
          post_migrate |-> {"es_syncdb_callback"}]
    ELSE NoReceivers

(* --------------------------- the mixin -------------------------------- *)

raise_no_db_operation_Never(instance) == FALSE

\* TRUE when _raise_no_db_operation raises ValueError.
raise_no_db_operation(instance) == getattr_False(instance.flag)

\* What one save()/delete() call did.
Done(d, dbOp, delivered, res) ==
    [db |-> d, dbOp |-> dbOp, delivered |-> delivered, index |-> res.index,
     calls |-> res.calls, logged |-> res.logged, raised |-> res.raised]

\* Model.save: write the row, then send post_save to the connected receivers.
Model_save(instance, d, idx, rcv, plan) ==
    LET d2 == [d EXCEPT ![RowOf(instance)] = instance.value] IN
    IF "es_save_callback" \in rcv.post_save
    THEN Done(d2, TRUE, TRUE, es_save_callback(instance.model, instance, idx, plan))
    ELSE Done(d2, TRUE, FALSE, Result(idx, <<>>, 0, "none"))

\* Model.delete: remove the row, then send post_delete.
Model_delete(instance, d, idx, rcv, plan) ==
    LET d2 == [d EXCEPT ![RowOf(instance)] = Absent] IN
    IF "es_delete_callback" \in rcv.post_delete
    THEN Done(d2, TRUE, TRUE, es_delete_callback(instance.model, instance, idx, plan))
    ELSE Done(d2, TRUE, FALSE, Result(idx, <<>>, 0, "none"))

EsIndexable_save(instance, d, idx, rcv, plan) ==
    IF raise_no_db_operation(instance)
    THEN Done(d, FALSE, FALSE, Result(idx, <<>>, 0, "ValueError"))
    ELSE Model_save(instance, d, idx, rcv, plan)

EsIndexable_delete(instance, d, idx, rcv, plan) ==
    IF raise_no_db_operation(instance)
    THEN Done(d, FALSE, FALSE, Result(idx, <<>>, 0, "ValueError"))
    ELSE Model_delete(instance, d, idx, rcv, plan)

(* ------------------------- the migration event ------------------------ *)

NewerThan16(v) == v.major > 1 \/ (v.major = 1 /\ v.minor > 6)

\* What the framework passes with the signal: post_migrate (newer than 1.6)
\* has an application object as sender and no created_models; post_syncdb
\* (1.6 and older) passes created_models.
MigrateSender(v, appModels) ==
    [get_models |-> IF NewerThan16(v) THEN appModels ELSE <<>>]
MigrateCreatedModels(v, appModels) ==
    IF NewerThan16(v) THEN <<>> ELSE appModels

(* ------------------------------ history ------------------------------- *)

NoLast ==
    [kind |-> "none", row |-> ClassRow("Plain"), flag |-> "absent", app |-> <<>>,
     models |-> <<>>, dbOp |-> FALSE, delivered |-> FALSE, calls |-> <<>>, logged |-> 0,
     raised |-> "none"]

NoRaise(calls) == \A i \in 1..Len(calls) : calls[i].out = "ok"

ManagerCalls(calls) == SelectSeq(calls, LAMBDA c : c.op # "probe")

RECURSIVE Tag(_, _)
Tag(calls, ev) ==
    IF calls = <<>> THEN <<>>
    ELSE <<[op |-> Head(calls).op, on |-> Head(calls).on, ev |-> ev]>> \o Tag(Tail(calls), ev)

Record(kind, row, calls) ==
    IF trace.on
    THEN [on     |-> TRUE,
          events |-> Append(trace.events, [kind |-> kind, row |-> row]),
          calls  |-> trace.calls \o Tag(ManagerCalls(calls), Len(trace.events) + 1)]
    ELSE trace

CanStep == trace.on => Len(trace.events) < MaxEvents

IndexableIn(app) == {m \in {app[i] : i \in 1..Len(app)} : issubclass_EsIndexable(m)}

(* ------------------------------ actions ------------------------------- *)

TypeOK ==
    /\ settings \in Flags
    /\ version \in Versions
    /\ db \in [Rows -> Values \cup {Absent}]
    /\ index \in [Rows -> Values \cup {Absent}]
    /\ reachable \in BOOLEAN

InitCommon ==
    /\ settings \in Flags
    /\ version \in Versions
    /\ receivers = Connect(settings)
    /\ db = [r \in Rows |-> Absent]
    /\ index = [r \in Rows |-> Absent]
    /\ last = NoLast
    /\ reachable = TRUE

Init ==
    /\ InitCommon
    /\ trace = [on |-> FALSE, events |-> <<>>, calls |-> <<>>]

InitTrace ==
    /\ InitCommon
    /\ settings = "True"
    /\ version.minor \in {6, 7}
    /\ trace = [on |-> TRUE, events |-> <<>>, calls |-> <<>>]

Apply(kind, row, flag, app, models, done) ==
    /\ db' = done.db
    /\ index' = done.index
    /\ last' = [kind |-> kind, row |-> row, flag |-> flag, app |-> app,
                models |-> models, dbOp |-> done.dbOp, delivered |-> done.delivered,
                calls |-> done.calls, logged |-> done.logged, raised |-> done.raised]
    /\ reachable' = (reachable /\ NoRaise(done.calls))
    /\ trace' = IF done.dbOp \/ kind = "migrate" THEN Record(kind, row, done.calls) ELSE trace
    /\ UNCHANGED <<settings, version, receivers>>

Save ==
    \E r \in Rows, v \in Values, flag \in Flags, plan \in Plans2 :
        /\ CanStep
        /\ issubclass_EsIndexable(r.model) \/ flag = "absent"
        /\ LET instance == [model |-> r.model, pk |-> r.pk, value |-> v, flag |-> flag]
               done == IF issubclass_EsIndexable(r.model)
                       THEN EsIndexable_save(instance, db, index, receivers, plan)
                       ELSE Model_save(instance, db, index, receivers, plan)
           IN  Apply("save", r, flag, <<>>, <<>>, done)

Delete ==
    \E r \in Rows, flag \in Flags, plan \in Plans2 :
        /\ CanStep
        /\ db[r] # Absent
        /\ issubclass_EsIndexable(r.model) \/ flag = "absent"
        /\ LET instance == [model |-> r.model, pk |-> r.pk, value |-> db[r], flag |-> flag]
               done == IF issubclass_EsIndexable(r.model)
                       THEN EsIndexable_delete(instance, db, index, receivers, plan)
                       ELSE Model_delete(instance, db, index, receivers, plan)
           IN  Apply("delete", r, flag, <<>>, <<>>, done)

Migrate ==
    \E app \in AppModelLists :
      \E plans \in [IndexableIn(app) -> Plans3] :
        /\ CanStep
        /\ LET res == IF "es_syncdb_callback" \in receivers.post_migrate
                      THEN es_syncdb_callback(MigrateSender(version, app),
                                              MigrateCreatedModels(version, app),
                                              version, index, db, plans)
                      ELSE Result(index, <<>>, 0, "none")
               done == Done(db, FALSE, "es_syncdb_callback" \in receivers.post_migrate, res)
               models == IF done.delivered
                         THEN SyncdbModels(MigrateSender(version, app),
                                           MigrateCreatedModels(version, app), version)
                         ELSE <<>>
           IN  Apply("migrate", ClassRow("Plain"), "absent", app, models, done)

Next == Save \/ Delete \/ Migrate

Spec == Init /\ [][Next]_vars

SpecTrace == InitTrace /\ [][Next]_vars

(* ------------------------------ properties ---------------------------- *)

Range(seq) == {seq[i] : i \in 1..Len(seq)}
CallsOn(calls, m) == SelectSeq(calls, LAMBDA c : c.on.model = m)
Failed(calls, errors) == {i \in 1..Len(calls) : calls[i].out \in errors}
ArticleRow == [model |-> "Article", pk |-> 1]
PlainRow == [model |-> "Plain", pk |-> 1]
OnIndexable == last.row.model \in EsIndexableSubclasses

\* C1: with auto-indexing enabled and no external call ever raising, the
\* index holds exactly the rows of EsIndexable models that exist in the
\* database, each with the value written by its latest save.
C1_IndexMirrorsDatabase ==
    (settings = "True" /\ reachable) =>
        \A r \in Rows :
            index[r] = IF r.model \in EsIndexableSubclasses THEN db[r] ELSE Absent

\* An update followed by a delivered event: the row was saved, indexed, and
\* the latest event wrote the second value.
C1_Witness ==
    /\ settings = "True" /\ reachable
    /\ last.kind = "save" /\ last.row = ArticleRow
    /\ Len(last.calls) = 2 /\ last.calls[2].op = "do_index"
    /\ db[ArticleRow] = "v2" /\ index[ArticleRow] = "v2"
    /\ db[PlainRow] # Absent

C1_WitnessDelete ==
    /\ settings = "True" /\ reachable
    /\ last.kind = "delete" /\ last.row = ArticleRow /\ Len(last.calls) = 2
    /\ db[ArticleRow] = Absent /\ index[ArticleRow] = Absent

\* C2: when the probe or the manager call of a save/delete callback raises a
\* connectivity error, the callback logs exactly one error, returns normally,
\* and the index is the same after the event as before it.
C2_ConnectivityErrorDropped ==
    [][ ( /\ last'.kind \in {"save", "delete"}
          /\ last'.delivered
          /\ last'.row.model \in EsIndexableSubclasses
          /\ last'.calls # <<>>
          /\ last'.calls[Len(last'.calls)].out \in ConnectivityErrors )
        => ( /\ last'.logged = 1
             /\ last'.raised = "none"
             /\ index' = index
             /\ \A i \in 1..Len(last'.calls) :
                    last'.calls[i].op # "probe" => last'.calls[i].out # "ok" ) ]_vars

\* A save whose do_index timed out: the row is in the database with a value
\* the index does not have.
C2_Witness ==
    /\ last.kind = "save" /\ last.delivered /\ last.row = ArticleRow
    /\ Len(last.calls) = 2 /\ last.calls[2].out = "requests.Timeout"
    /\ last.logged = 1 /\ last.raised = "none"
    /\ db[ArticleRow] # index[ArticleRow]

\* C3: save() and delete() of an EsIndexable instance flagged as deserialized
\* raise ValueError before the database operation (database and index
\* unchanged, no signal delivered, no call made); without the flag, or with
\* the flag false, they reach the database operation.
C3_DeserializedNeverReachesDb ==
    [][ ( /\ last'.kind \in {"save", "delete"}
          /\ last'.row.model \in EsIndexableSubclasses )
        => IF last'.flag = "True"
           THEN /\ last'.raised = "ValueError"
                /\ ~last'.dbOp /\ ~last'.delivered /\ last'.calls = <<>>
                /\ db' = db /\ index' = index
           ELSE last'.dbOp ]_vars

\* A delete of a deserialized instance whose row exists: the row is still there.
C3_Witness ==
    /\ last.kind = "delete" /\ last.flag = "True" /\ last.row = ArticleRow
    /\ last.raised = "ValueError" /\ db[ArticleRow] # Absent

C3_WitnessPlainFlag ==
    /\ last.kind = "save" /\ last.flag = "False" /\ last.row = ArticleRow /\ last.dbOp

\* C4: with ELASTICSEARCH_AUTO_INDEX absent or false no callback is
\* connected, no event is delivered to a callback, no probe or index
\* operation is made and the index stays empty; with it true the three
\* callbacks are connected.
C4_ToggleGuardsRegistration ==
    /\ settings \in {"absent", "False"} =>
          /\ receivers.post_save = {} /\ receivers.post_delete = {}
          /\ receivers.post_migrate = {}
          /\ ~last.delivered /\ last.calls = <<>> /\ last.logged = 0
          /\ \A r \in Rows : index[r] = Absent
    /\ settings = "True" =>
          /\ receivers.post_save = {"es_save_callback"}
          /\ receivers.post_delete = {"es_delete_callback"}
          /\ receivers.post_migrate = {"es_syncdb_callback"}

\* A migration after a save of an indexable row, with the toggle absent.
C4_Witness ==
    /\ settings = "absent" /\ last.kind = "migrate"
    /\ last.app = <<"Article", "Plain", "Comment">>
    /\ db[ArticleRow] # Absent

C4_WitnessOn ==
    /\ settings = "True" /\ last.kind = "migrate" /\ last.delivered

\* C5: on a migration event the callback iterates sender.get_models() exactly
\* when the framework is newer than 1.6, so that on every version, when no
\* call raises, each EsIndexable model of the migrated application gets
\* create_index and reindex_all.
C5_EveryVersionIndexesAppModels ==
    (last.kind = "migrate" /\ last.delivered) =>
        /\ last.models = last.app
        /\ NoRaise(last.calls) =>
              \A m \in Range(last.app) \cap EsIndexableSubclasses :
                  /\ \E i \in 1..Len(last.calls) :
                        last.calls[i].op = "create_index" /\ last.calls[i].on.model = m
                  /\ \E i \in 1..Len(last.calls) :
                        last.calls[i].op = "reindex_all" /\ last.calls[i].on.model = m

\* C6: a save or delete event delivered for an EsIndexable sender makes
\* exactly one probe, first, and then the manager call (do_index for save,
\* delete for delete, on the row of the event) exactly when the probe
\* returned; nothing else is called.
C6_OneProbeThenAtMostOneCall ==
    (last.kind \in {"save", "delete"} /\ last.delivered /\ OnIndexable) =>
        /\ Len(last.calls) \in {1, 2}
        /\ last.calls[1].op = "probe"
        /\ (Len(last.calls) = 2) <=> (last.calls[1].out = "ok")
        /\ Len(last.calls) = 2 =>
              /\ last.calls[2].op = (IF last.kind = "save" THEN "do_index" ELSE "delete")
              /\ last.calls[2].on = last.row

\* A delete whose probe failed: one probe, no manager call.
C6_Witness ==
    /\ last.kind = "delete" /\ last.delivered /\ OnIndexable
    /\ Len(last.calls) = 1 /\ last.calls[1].out = "ElasticConnectionError"

C6_WitnessCall ==
    /\ last.kind = "save" /\ last.delivered /\ OnIndexable
    /\ Len(last.calls) = 2 /\ last.calls[2].out = "ok"

C7_WitnessDropped ==
    /\ Len(trace.events) = 2 /\ Len(trace.calls) = 1
    /\ trace.events[1].kind = "save" /\ trace.events[1].row = ArticleRow
    /\ trace.events[2].kind = "save" /\ trace.events[2].row = ArticleRow
    /\ trace.calls[1].ev = 2

\* C8: in the migration callback calls are made only for the EsIndexable
\* models of the list, model by model in list order; per model the probe
\* comes first, create_index follows only a successful probe, reindex_all
\* only a successful create_index, and a model's calls stop early only at a
\* failing call; when every failure is a connectivity error each failure is
\* logged, the callback returns normally and every EsIndexable model of the
\* list is attempted.
C8_SyncdbModelsIndependent ==
    (last.kind = "migrate" /\ last.delivered) =>
        LET calls == last.calls
            ms    == last.models
            Pos(m) == CHOOSE i \in 1..Len(ms) : ms[i] = m
        IN
        /\ \A i \in 1..Len(calls) :
              calls[i].on.model \in Range(ms) \cap EsIndexableSubclasses
        /\ \A i, j \in 1..Len(calls) :
              i < j => Pos(calls[i].on.model) <= Pos(calls[j].on.model)
        /\ \A m \in Range(ms) \cap EsIndexableSubclasses :
              LET cm == CallsOn(calls, m) IN
              /\ Len(cm) <= 3
              /\ Len(cm) >= 1 => cm[1].op = "probe"
              /\ Len(cm) >= 2 => cm[1].out = "ok" /\ cm[2].op = "create_index"
              /\ Len(cm) = 3 => cm[2].out = "ok" /\ cm[3].op = "reindex_all"
              /\ Len(cm) \in {1, 2} => cm[Len(cm)].out # "ok"
              /\ Failed(calls, OtherErrors) = {} => Len(cm) >= 1
        /\ Failed(calls, OtherErrors) = {} =>
              /\ last.raised = "none"
              /\ last.logged = Cardinality(Failed(calls, ConnectivityErrors))

\* The first model's create_index fails, the non-indexable model is skipped
\* and the last model is still fully handled.
C8_Witness ==
    /\ last.kind = "migrate" /\ last.delivered
    /\ last.models = <<"Article", "Plain", "Comment">>
    /\ Len(last.calls) = 5
    /\ last.calls[2].op = "create_index" /\ last.calls[2].out = "requests.ConnectionError"
    /\ last.calls[5].op = "reindex_all" /\ last.calls[5].on.model = "Comment"
    /\ last.calls[5].out = "ok"
    /\ last.logged = 1

\* C9: a save or delete event delivered for a sender that is not an
\* EsIndexable subclass makes no probe and no manager call, logs nothing,
\* returns normally and leaves the index as it was.
C9_NonIndexableSenderIgnored ==
    [][ ( /\ last'.kind \in {"save", "delete"}
          /\ last'.delivered
          /\ last'.row.model \notin EsIndexableSubclasses )
        => ( /\ last'.calls = <<>>
             /\ last'.logged = 0
             /\ last'.raised = "none"
             /\ index' = index ) ]_vars

C9_Witness ==
    /\ last.kind = "save" /\ last.delivered /\ last.row = PlainRow
    /\ db[PlainRow] # Absent /\ last.calls = <<>>

C9_WitnessDelete ==
    /\ last.kind = "delete" /\ last.delivered /\ last.row = PlainRow
    /\ db[PlainRow] = Absent /\ index[ArticleRow] # Absent

\* C10: an exception other than the three connectivity errors raised by a
\* probe or a manager call leaves the callback: it is the last call made in
\* the event (later models of a migration are not attempted), it is what the
\* callback raises, and it is not logged.
C10_OtherExceptionsPropagate ==
    last.delivered =>
        \A i \in 1..Len(last.calls) :
            last.calls[i].out \notin ({"ok"} \cup ConnectivityErrors) =>
                /\ i = Len(last.calls)
                /\ last.raised = last.calls[i].out
                /\ last.logged = Cardinality(Failed(last.calls, ConnectivityErrors))

\* create_index of the first model raises another error: the second
\* EsIndexable model of the list gets no call.
C10_Witness ==
    /\ last.kind = "migrate" /\ last.delivered
    /\ last.models = <<"Article", "Plain", "Comment">>
    /\ Len(last.calls) = 2 /\ last.calls[2].op = "create_index"
    /\ last.calls[2].out = "TransportError"
    /\ last.raised = "TransportError" /\ last.logged = 0

C10_WitnessSave ==
    /\ last.kind = "save" /\ last.delivered
    /\ Len(last.calls) = 1 /\ last.raised = "TransportError"
    /\ db[ArticleRow] # Absent

====
